---------------------------- MODULE Spec2Model ----------------------------
(***************************************************************************)
(* Live video session coordination of the Sentinel front end:              *)
(*   - useWebRTC (hooks/useWebRTC.ts) over WebRTCConnection                *)
(*     (services/webrtc.ts) and WebSocketService.send (services/websocket) *)
(*   - WebRTCPlayer (components/WebRTCPlayer.tsx) inside CameraCard        *)
(*     (pages/Cameras.tsx)                                                  *)
(*   - the startCamera thunk (store/slices/camerasSlice)                   *)
(*   - WebRTCManager (services/webrtc.ts)                                  *)
(*   - WebSocketService (services/websocket): its sockets and its emit     *)
(*   - eventsSlice (store/slices/eventsSlice.ts)                           *)
(*   - WebRTCConnection (services/webrtc.ts) driven by its own caller      *)
(*   - authSlice (store/slices/authSlice) and ApiService.logout            *)
(*     (services/api.ts)                                                   *)
(* Each part has its own specification; the variables of the other parts   *)
(* stay at their initial values.                                           *)
(***************************************************************************)
EXTENDS Integers, FiniteSets, Sequences, TLC

(***************************************************************************)
(* Bounds of the model.                                                    *)
(***************************************************************************)
\* addEvent actions dispatched after the last fetchEvents result or clearEvents
MaxAdds == 3
\* handlers that subscribe to one event
MaxHandlers == 3
\* socket.io sockets one WebSocketService creates
MaxSockets == 3
\* 'connect_error' events counted between two 'connect' events
MaxConnectErrors == 3
\* 'webrtc_signal' handlers of one hook counted in the WebSocket service
MaxSignalHandlers == 2
\* connections of one hook that were overwritten in connectionRef while
\* their peer was still open
MaxOrphans == 1
\* pending reconnect timers that reconnectTimeoutRef no longer points to
MaxLeaked == 2
\* startWebRTC calls of one WebRTCPlayer host
MaxAttempts == 2
\* onError calls counted for one attempt
MaxOnErr == 1
\* POST /api/cameras/{id}/start requests the model lets the clients issue
MaxStartPosts == 3
\* WebRTCConnection objects a caller creates with new WebRTCConnection
MaxObjects == 2
\* WebRTCConnection objects one WebRTCManager creates
MaxConns == 3

(***************************************************************************)
(* Program constants.                                                      *)
(***************************************************************************)
\* useWebRTC option defaults (VideoPlayer passes the same values)
autoReconnect == TRUE
reconnectDelay == 3000
\* eventsSlice.addEvent: the length above which the list is cut
EventsLimit == 1000
\* The hook has no retry limit of its own.  The only configured retry
\* maximum of the source is the socket service's maxReconnectAttempts,
\* which is also the value of the specification's example (max = 5).
maxReconnectAttempts == 5
\* types/index.ts: CameraStatus
CameraStatus == {"active", "inactive", "error", "connecting"}
\* the camera shown by the card, and the relay answers the model draws from
CameraId == "cam1"
Answers == {"sdpA", "sdpB"}
\* two browser clients looking at the same camera
Viewers == {"A", "B"}
\* the cameras a WebRTCManager is asked for
Cameras == {"cam1", "cam2"}

VARIABLES
  \* ---- useWebRTC ----
  mounted,              \* "init" (rendered, effect not run), "mounted", "unmounted"
  isConnecting,         \* useState
  isConnected,          \* useState
  error,                \* useState: TRUE when an Error is stored
  stream,               \* useState: TRUE when a MediaStream is stored
  connectionRef,        \* the WebRTCConnection in connectionRef.current, or NoConn
  requestSent,          \* request_webrtc_stream of connectionRef's connection reached the socket
  orphans,              \* open connections no longer in connectionRef: state -> how many
  reconnectTimeoutRef,  \* "null", "pending" (timer armed), "fired" (stale id)
  leakedTimers,         \* armed timers whose id was overwritten in the ref
  isUnmountedRef,       \* useRef
  wsConnected,          \* WebSocketService.socket?.connected
  retryCount,           \* observer: consecutive drops since the last 'connected'
  stopped,              \* observer: disconnect() ran and the user has not called connect() since
  hookCameraId,         \* the cameraId argument of the hook
  lastDelay,            \* observer: delay of the reconnect armed at the last drop, 0 for none
  prevDelay,            \* observer: delay of the reconnect armed at the drop before that
  signalHandlers        \* 'webrtc_signal' handlers this hook has in wsService.handlers,
                        \* counted up to MaxSignalHandlers

hookVars == <<mounted, isConnecting, isConnected, error, stream, connectionRef,
              requestSent, orphans, reconnectTimeoutRef, leakedTimers,
              isUnmountedRef, wsConnected, retryCount, stopped, hookCameraId,
              lastDelay, prevDelay, signalHandlers>>

VARIABLES
  \* ---- CameraCard and WebRTCPlayer ----
  host,           \* "card": the player is rendered by CameraCard; "standalone"
  camStatus,      \* camera.status of the card's camera in the store
  cardIsLoading,  \* CameraCard useState isLoading
  hasError,       \* CameraCard useState hasError
  player,         \* the WebRTCPlayer instance: its state and refs
  attempts        \* one record per startWebRTC call

playerVars == <<host, camStatus, cardIsLoading, hasError, player, attempts>>

VARIABLES
  \* ---- startCamera, one store and card per viewer ----
  thunk,          \* viewer -> "idle" or "pending": the startCamera request in flight
  sIsLoading,     \* viewer -> CameraCard isLoading
  sHasError,      \* viewer -> CameraCard hasError
  sStatus,        \* viewer -> camera.status in that viewer's store
  startPosts      \* POST /api/cameras/{id}/start requests issued so far

startVars == <<thunk, sIsLoading, sHasError, sStatus, startPosts>>

VARIABLES
  \* ---- WebRTCManager ----
  connections,      \* the Map: a set of <<cameraId, connection id>> entries
  conns,            \* connection id -> WebRTCConnection
  registrations,    \* observer: camera -> createConnection calls
  unregistrations   \* observer: camera -> closeConnection calls that found a connection

managerVars == <<connections, conns, registrations, unregistrations>>

VARIABLES
  \* ---- WebSocketService ----
  socket,                 \* this.socket: 0 for null, or the id of a socket.io socket
  sockets,                \* socket id -> "unused", "connecting", "connected", "closed"
  reconnectAttempts,      \* this.reconnectAttempts
  connectionErrorLogged,  \* this.connectionErrorLogged
  errorsSinceConnect,     \* observer: 'connect_error' events since the last 'connect'
  wsLast                  \* observer: the last socket event the service handled

wsVars == <<socket, sockets, reconnectAttempts, connectionErrorLogged,
            errorsSinceConnect, wsLast>>

VARIABLES
  \* ---- emit(event, data) of WebSocketService and WebRTCConnection ----
  evHandlers,   \* the Set of handlers of one event, in insertion order
  emitState,    \* "idle", "running" (inside forEach), "done", "aborted"
  called,       \* handlers forEach has visited in the running emit
  delivered,    \* handlers that were handed the event of the last emit, in order
  atStart,      \* observer: subscribers at the start of the emit
  expected,     \* observer: those of atStart that did not unsubscribe before
                \* their turn
  threw         \* observer: handlers that threw during the last emit

emitVars == <<evHandlers, emitState, called, delivered, atStart, expected, threw>>

VARIABLES
  \* ---- eventsSlice ----
  \* state.events is evRecent followed by evOldLen further events
  evRecent,             \* the events put in front by addEvent: records [id, acknowledged]
  evOldLen,             \* how many events of the last fetchEvents result follow them
  evOldAck,             \* the acknowledged flag of those events
  unacknowledgedCount,  \* state.unacknowledgedCount
  nextEventId           \* the id the next new event gets

eventsVars == <<evRecent, evOldLen, evOldAck, unacknowledgedCount, nextEventId>>

VARIABLES
  \* ---- authSlice and ApiService ----
  authUser,         \* state.user is not null
  authToken,        \* state.token: "none" for null
  isAuthenticated,  \* state.isAuthenticated
  authIsLoading,    \* state.isLoading
  localToken,       \* localStorage 'token': "none" when absent
  apiToken,         \* ApiService.token: "none" for null
  loginThunk,       \* "idle" or "pending": loginAsync in flight
  logoutThunk,      \* "idle" or "pending": the logout thunk in flight
  apiLogout,        \* "idle" or "pending": ApiService.logout() in flight
  lastLogout        \* observer: how the last logout ended since the last login:
                    \* "none", "fulfilled", "rejected" (thunk), "success",
                    \* "failure" (ApiService)

authVars == <<authUser, authToken, isAuthenticated, authIsLoading, localToken,
              apiToken, loginThunk, logoutThunk, apiLogout, lastLogout>>

vars == <<hookVars, playerVars, startVars, managerVars, wsVars, emitVars,
          eventsVars, authVars>>

notHook == <<playerVars, startVars, managerVars, wsVars, emitVars, eventsVars,
             authVars>>
notPlayer == <<hookVars, startVars, managerVars, wsVars, emitVars, eventsVars,
               authVars>>
notStart == <<hookVars, playerVars, managerVars, wsVars, emitVars, eventsVars,
              authVars>>
notManager == <<hookVars, playerVars, startVars, wsVars, emitVars, eventsVars,
                authVars>>
notWs == <<hookVars, playerVars, startVars, managerVars, emitVars, eventsVars,
           authVars>>
notEmit == <<hookVars, playerVars, startVars, managerVars, wsVars, eventsVars,
             authVars>>
notEvents == <<hookVars, playerVars, startVars, managerVars, wsVars, emitVars,
               authVars>>
notAuth == <<hookVars, playerVars, startVars, managerVars, wsVars, emitVars,
             eventsVars>>

(***************************************************************************)
(* WebRTCConnection (services/webrtc.ts).  A connection is a record:       *)
(*   peer      "null" (this.peer = null), "open" (a live SimplePeer),      *)
(*             "closed" (this.peer still refers to a peer that emitted     *)
(*             'close')                                                    *)
(*   connected this.connected                                              *)
(*   handlers  eventHandlers is non-empty                                  *)
(*   promise   the promise returned by connect(): "none", "pending",       *)
(*             "resolved", "rejected"                                      *)
(*   timer     the 10 s timeout of connect(signalData) is armed            *)
(***************************************************************************)
NoConn == [peer |-> "noconn", connected |-> FALSE, handlers |-> FALSE,
           promise |-> "none", timer |-> FALSE]

NewConnection == [peer |-> "null", connected |-> FALSE, handlers |-> FALSE,
                  promise |-> "none", timer |-> FALSE]

\* on(event, handler)
ConnOn(c) == [c EXCEPT !.handlers = TRUE]

\* connect(signalData): signalData is TRUE when initial signal data is given;
\* throws is TRUE when the SimplePeer constructor throws
ConnConnect(c, signalData, throws) ==
  IF throws
    THEN [c EXCEPT !.promise = "rejected"]
    ELSE [c EXCEPT !.peer = "open", !.promise = "pending", !.timer = signalData]

\* peer.on('connect')
ConnOnPeerConnect(c) ==
  [c EXCEPT !.connected = TRUE,
            !.promise = IF @ = "pending" THEN "resolved" ELSE @]

\* peer.on('error')
ConnOnPeerError(c) ==
  [c EXCEPT !.promise = IF @ = "pending" THEN "rejected" ELSE @]

\* peer.on('close')
ConnOnPeerClose(c) == [c EXCEPT !.connected = FALSE, !.peer = "closed"]

\* the setTimeout callback of connect(signalData)
ConnTimeout(c) ==
  [c EXCEPT !.timer = FALSE,
            !.promise = IF ~c.connected /\ @ = "pending" THEN "rejected" ELSE @]

\* a disconnect() that forgets the connected flag
ConnDisconnectKeepsFlag(c) == [c EXCEPT !.peer = "null", !.handlers = FALSE]

\* disconnect()
ConnDisconnect(c) ==
  IF c.peer # "null"
    THEN [c EXCEPT !.peer = "null", !.connected = FALSE, !.handlers = FALSE]
    ELSE [c EXCEPT !.handlers = FALSE]

(***************************************************************************)
(* useWebRTC (hooks/useWebRTC.ts)                                          *)
(***************************************************************************)
OrphanStates == {"open", "connected"}
NumOrphans == orphans["open"] + orphans["connected"]

\* setTimeout(...) stored into reconnectTimeoutRef.current: the id that was in
\* the ref is overwritten, its timer stays armed
SetReconnectTimeout(t) ==
  [ref |-> "pending",
   leaked |-> IF t.ref = "pending" THEN t.leaked + 1 ELSE t.leaked]

Timers == [ref |-> reconnectTimeoutRef, leaked |-> leakedTimers]

NoTimerPending == reconnectTimeoutRef # "pending" /\ leakedTimers = 0

Bump(n) == IF n > maxReconnectAttempts THEN n ELSE n + 1

\* a delay that shrinks with the number of drops
ReconnectDelayShrinking(n) == reconnectDelay - n

\* the delay given to setTimeout after n consecutive drops: reconnectDelay,
\* whatever n is (lines 110-114, 126-130)
ReconnectDelay(n) == reconnectDelay

KeepDelays == UNCHANGED <<prevDelay, lastDelay>>
ResetDelays == prevDelay' = 0 /\ lastDelay' = 0
ArmDelay ==
  IF isUnmountedRef \/ ~autoReconnect
    THEN KeepDelays
    ELSE prevDelay' = lastDelay /\ lastDelay' = ReconnectDelay(retryCount)

\* wsService.on('webrtc_signal', handler) of connect() (lines 146-152): a new
\* closure is added to the Set of the event at every call
SignalOn(n) == IF n < MaxSignalHandlers THEN n + 1 ELSE n

\* the places a live connection of the hook can be
Places == {"ref", "open", "connected"}

PeerOpenAt(p) ==
  IF p = "ref" THEN connectionRef.peer = "open" /\ connectionRef.handlers
  ELSE orphans[p] > 0

ConnectedAt(p) == IF p = "ref" THEN connectionRef.connected ELSE p = "connected"

\* the body of connect() after its two guards (lines 73-169)
ConnectBody(throws) ==
  LET old == connectionRef
      becomesOrphan == old.peer = "open" /\ old.handlers
      ostate == IF old.connected THEN "connected" ELSE "open"
  IN /\ becomesOrphan => NumOrphans < MaxOrphans
     /\ connectionRef' = ConnConnect(ConnOn(NewConnection), FALSE, throws)
     /\ orphans' = IF becomesOrphan
                     THEN [orphans EXCEPT ![ostate] = @ + 1]
                     ELSE orphans
     /\ signalHandlers' = SignalOn(signalHandlers)
     /\ requestSent' = wsConnected
     /\ isConnecting' = IF mounted = "unmounted" THEN isConnecting
                        ELSE IF throws /\ ~isUnmountedRef THEN FALSE ELSE TRUE
     /\ error' = IF mounted = "unmounted" THEN error
                 ELSE throws /\ ~isUnmountedRef

\* the body of disconnect() (lines 175-195)
DisconnectBody ==
  /\ reconnectTimeoutRef' = "null"
  /\ connectionRef' = NoConn
  /\ requestSent' = FALSE
  /\ isConnecting' = FALSE
  /\ isConnected' = FALSE
  /\ stream' = FALSE
  /\ error' = FALSE

\* useEffect on mount: autoConnect
EffectMount ==
  /\ mounted = "init"
  /\ mounted' = "mounted"
  /\ \E throws \in BOOLEAN : ConnectBody(throws)
  /\ UNCHANGED <<isConnected, stream, reconnectTimeoutRef, leakedTimers,
                 isUnmountedRef, wsConnected, retryCount, stopped>>
  /\ KeepDelays
  /\ UNCHANGED hookCameraId
  /\ UNCHANGED notHook

\* the user calls connect()
UserConnect ==
  /\ mounted = "mounted"
  /\ ~(isConnecting \/ isConnected)
  /\ \E throws \in BOOLEAN : ConnectBody(throws)
  /\ stopped' = FALSE
  /\ UNCHANGED <<mounted, isConnected, stream, reconnectTimeoutRef, leakedTimers,
                 isUnmountedRef, wsConnected, retryCount>>
  /\ KeepDelays
  /\ UNCHANGED hookCameraId
  /\ UNCHANGED notHook

\* a reconnect timer fires: connect() of the render that created the handler,
\* whose isConnecting and isConnected are both false
TimerFire(which) ==
  /\ \/ /\ which = "ref"
        /\ reconnectTimeoutRef = "pending"
        /\ reconnectTimeoutRef' = "fired"
        /\ UNCHANGED leakedTimers
     \/ /\ which = "leaked"
        /\ leakedTimers > 0
        /\ leakedTimers' = leakedTimers - 1
        /\ UNCHANGED reconnectTimeoutRef
  /\ \E throws \in BOOLEAN : ConnectBody(throws)
  /\ UNCHANGED <<mounted, isConnected, stream, isUnmountedRef, wsConnected,
                 retryCount, stopped>>
  /\ KeepDelays
  /\ UNCHANGED hookCameraId
  /\ UNCHANGED notHook

\* the user calls disconnect()
UserDisconnect ==
  /\ mounted = "mounted"
  /\ DisconnectBody
  /\ retryCount' = 0
  /\ stopped' = TRUE
  /\ UNCHANGED <<mounted, orphans, leakedTimers, isUnmountedRef, wsConnected>>
  /\ ResetDelays
  /\ UNCHANGED <<hookCameraId, signalHandlers>>
  /\ UNCHANGED notHook

\* the user calls reconnect() (lines 200-204): disconnect(), then connect() of
\* the same render, whose guard still sees the state from before the call
UserReconnect ==
  /\ mounted = "mounted"
  /\ reconnectTimeoutRef' = "null"
  /\ isConnected' = FALSE
  /\ stream' = FALSE
  /\ IF isConnecting \/ isConnected
       THEN /\ connectionRef' = NoConn
            /\ requestSent' = FALSE
            /\ isConnecting' = FALSE
            /\ error' = FALSE
            /\ UNCHANGED signalHandlers
       ELSE \E throws \in BOOLEAN :
              /\ connectionRef' = ConnConnect(ConnOn(NewConnection), FALSE, throws)
              /\ signalHandlers' = SignalOn(signalHandlers)
              /\ requestSent' = wsConnected
              /\ isConnecting' = ~throws
              /\ error' = throws
  /\ retryCount' = 0
  /\ stopped' = FALSE
  /\ UNCHANGED <<mounted, orphans, leakedTimers, isUnmountedRef, wsConnected>>
  /\ ResetDelays
  /\ UNCHANGED hookCameraId
  /\ UNCHANGED notHook

\* the cameraId argument changes (lines 209-220): the cleanup of the previous
\* effect sets isUnmountedRef and calls disconnect(), then the effect of the
\* new render calls connect(), whose guard sees the state of that render
CameraSwitch(c) ==
  /\ mounted = "mounted"
  /\ c # hookCameraId
  /\ hookCameraId' = c
  /\ isUnmountedRef' = TRUE
  /\ reconnectTimeoutRef' = "null"
  /\ isConnected' = FALSE
  /\ stream' = FALSE
  /\ error' = FALSE
  /\ IF isConnecting \/ isConnected
       THEN /\ connectionRef' = NoConn
            /\ requestSent' = FALSE
            /\ isConnecting' = FALSE
            /\ UNCHANGED signalHandlers
       ELSE \E throws \in BOOLEAN :
              /\ connectionRef' = ConnConnect(ConnOn(NewConnection), FALSE, throws)
              /\ signalHandlers' = SignalOn(signalHandlers)
              /\ requestSent' = wsConnected
              /\ isConnecting' = TRUE
  /\ retryCount' = 0
  /\ ResetDelays
  /\ UNCHANGED <<mounted, orphans, leakedTimers, wsConnected, stopped>>
  /\ UNCHANGED notHook

\* cleanup of the effect at unmount
Unmount ==
  /\ mounted = "mounted"
  /\ mounted' = "unmounted"
  /\ isUnmountedRef' = TRUE
  /\ DisconnectBody
  /\ retryCount' = 0
  /\ stopped' = TRUE
  /\ UNCHANGED <<orphans, leakedTimers, wsConnected>>
  /\ ResetDelays
  /\ UNCHANGED <<hookCameraId, signalHandlers>>
  /\ UNCHANGED notHook

\* the connection at place p leaves the open state
RemoveAt(p, c) ==
  IF p = "ref"
    THEN connectionRef' = c /\ UNCHANGED orphans
    ELSE orphans' = [orphans EXCEPT ![p] = @ - 1] /\ UNCHANGED connectionRef

\* the peer emits 'connect': 'connected' handler of the hook
PeerConnect(p) ==
  /\ PeerOpenAt(p)
  /\ ~ConnectedAt(p)
  /\ IF p = "ref"
       THEN connectionRef' = ConnOnPeerConnect(connectionRef) /\ UNCHANGED orphans
       ELSE orphans' = [orphans EXCEPT !["open"] = @ - 1, !["connected"] = @ + 1]
            /\ UNCHANGED connectionRef
  /\ IF isUnmountedRef
       THEN UNCHANGED <<isConnected, isConnecting>>
       ELSE isConnected' = TRUE /\ isConnecting' = FALSE
  /\ retryCount' = 0
  /\ UNCHANGED <<mounted, error, stream, requestSent, reconnectTimeoutRef,
                 leakedTimers, isUnmountedRef, wsConnected, stopped>>
  /\ ResetDelays
  /\ UNCHANGED <<hookCameraId, signalHandlers>>
  /\ UNCHANGED notHook

\* the peer emits 'stream'
PeerStream(p) ==
  /\ PeerOpenAt(p)
  /\ ~isUnmountedRef
  /\ ~stream
  /\ stream' = TRUE
  /\ isConnected' = TRUE
  /\ isConnecting' = FALSE
  /\ retryCount' = 0
  /\ UNCHANGED <<mounted, error, connectionRef, requestSent, orphans,
                 reconnectTimeoutRef, leakedTimers, isUnmountedRef, wsConnected,
                 stopped>>
  /\ ResetDelays
  /\ UNCHANGED <<hookCameraId, signalHandlers>>
  /\ UNCHANGED notHook

\* the peer is destroyed with an error: simple-peer emits 'error' and then
\* 'close' in one go; the rejected promise then runs the catch block
PeerError(p) ==
  /\ PeerOpenAt(p)
  /\ RemoveAt(p, ConnOnPeerClose(ConnOnPeerError(connectionRef)))
  /\ IF isUnmountedRef
       THEN UNCHANGED <<error, isConnecting, isConnected, stream,
                        reconnectTimeoutRef, leakedTimers>>
       ELSE LET t == IF autoReconnect
                       THEN SetReconnectTimeout(SetReconnectTimeout(Timers))
                       ELSE Timers
            IN /\ t.leaked <= MaxLeaked
               /\ error' = TRUE
               /\ isConnecting' = FALSE
               /\ isConnected' = FALSE
               /\ stream' = FALSE
               /\ reconnectTimeoutRef' = t.ref
               /\ leakedTimers' = t.leaked
  /\ retryCount' = Bump(retryCount)
  /\ UNCHANGED <<mounted, requestSent, isUnmountedRef, wsConnected, stopped>>
  /\ ArmDelay
  /\ UNCHANGED <<hookCameraId, signalHandlers>>
  /\ UNCHANGED notHook

\* the peer closes without an error: 'disconnected' handler of the hook
PeerClose(p) ==
  /\ PeerOpenAt(p)
  /\ RemoveAt(p, ConnOnPeerClose(connectionRef))
  /\ IF isUnmountedRef
       THEN UNCHANGED <<isConnected, stream, reconnectTimeoutRef, leakedTimers>>
       ELSE LET t == IF autoReconnect THEN SetReconnectTimeout(Timers) ELSE Timers
            IN /\ t.leaked <= MaxLeaked
               /\ isConnected' = FALSE
               /\ stream' = FALSE
               /\ reconnectTimeoutRef' = t.ref
               /\ leakedTimers' = t.leaked
  /\ retryCount' = Bump(retryCount)
  /\ UNCHANGED <<mounted, error, isConnecting, requestSent, isUnmountedRef,
                 wsConnected, stopped>>
  /\ ArmDelay
  /\ UNCHANGED <<hookCameraId, signalHandlers>>
  /\ UNCHANGED notHook

\* the socket connects or drops (socket.io, outside the hook)
WsToggle ==
  /\ wsConnected' = ~wsConnected
  /\ UNCHANGED <<mounted, isConnecting, isConnected, error, stream, connectionRef,
                 requestSent, orphans, reconnectTimeoutRef, leakedTimers,
                 isUnmountedRef, retryCount, stopped>>
  /\ KeepDelays
  /\ UNCHANGED <<hookCameraId, signalHandlers>>
  /\ UNCHANGED notHook

InitHook ==
  /\ mounted = "init"
  /\ isConnecting = FALSE
  /\ isConnected = FALSE
  /\ error = FALSE
  /\ stream = FALSE
  /\ connectionRef = NoConn
  /\ requestSent = FALSE
  /\ orphans = [s \in OrphanStates |-> 0]
  /\ reconnectTimeoutRef = "null"
  /\ leakedTimers = 0
  /\ isUnmountedRef = FALSE
  /\ wsConnected \in BOOLEAN
  /\ retryCount = 0
  /\ stopped = FALSE
  /\ hookCameraId \in Cameras
  /\ lastDelay = 0
  /\ prevDelay = 0
  /\ signalHandlers = 0

NextHook ==
  \/ EffectMount
  \/ UserConnect
  \/ UserDisconnect
  \/ UserReconnect
  \/ \E c \in Cameras : CameraSwitch(c)
  \/ Unmount
  \/ \E w \in {"ref", "leaked"} : TimerFire(w)
  \/ \E p \in Places : PeerConnect(p)
  \/ \E p \in Places : PeerStream(p)
  \/ \E p \in Places : PeerError(p)
  \/ \E p \in Places : PeerClose(p)
  \/ WsToggle


(***************************************************************************)
(* WebRTCPlayer (components/WebRTCPlayer.tsx) in CameraCard                *)
(* (pages/Cameras.tsx).                                                    *)
(* player: mounted, isPlaying, error, isLoading (useState), pcRef (the     *)
(* attempt whose RTCPeerConnection is in pcRef.current, 0 for null),       *)
(* srcObject (the video element has a stream).                             *)
(* An attempt is one startWebRTC call: stage is the await it is parked at, *)
(* cur says that the instance that started it is still mounted, pc is the  *)
(* state of its RTCPeerConnection.                                         *)
(***************************************************************************)
AttemptIds == 1..MaxAttempts

NoAttempt == [stage |-> "unused", cur |-> FALSE, pc |-> "none", offer |-> 0,
              posts |-> 0, url |-> "", sent |-> 0, resp |-> "none",
              body |-> "none", answer |-> "none", onErr |-> 0]

NoPlayer == [mounted |-> FALSE, isPlaying |-> FALSE, error |-> FALSE,
             isLoading |-> TRUE, pcRef |-> 0, srcObject |-> FALSE]

\* props given by CameraCard
webrtcUrl == "http://localhost:8889"
cameraId == CameraId \o "_h264"

\* an endpoint that leaves out the camera's path segment
WhepUrlNoCamera(url, id) == url \o "/whep"

\* `${webrtcUrl}/${cameraId}/whep`
WhepUrl(url, id) == url \o "/" \o id \o "/whep"

World == [player |-> player, attempts |-> attempts]

FreeIds(att) == {a \in AttemptIds : att[a].stage = "unused"}
NewId(att) == CHOOSE a \in FreeIds(att) : \A b \in FreeIds(att) : a <= b

\* startWebRTC up to its first await (lines 36-78)
StartWebRTC(W) ==
  LET a == NewId(W.attempts)
  IN [player |-> [W.player EXCEPT !.isLoading = TRUE, !.error = FALSE, !.pcRef = a],
      attempts |-> [W.attempts EXCEPT ![a] =
                      [NoAttempt EXCEPT !.stage = "createOffer", !.cur = TRUE,
                                        !.pc = "open"]]]

\* stopWebRTC (lines 118-127)
StopWebRTC(W) ==
  [player |-> [W.player EXCEPT !.pcRef = 0, !.srcObject = FALSE, !.isPlaying = FALSE],
   attempts |-> IF W.player.pcRef # 0
                  THEN [W.attempts EXCEPT ![W.player.pcRef].pc = "closed"]
                  ELSE W.attempts]

\* first render of an instance and its effect: autoplay
MountPlayer(W) == StartWebRTC([W EXCEPT !.player = [NoPlayer EXCEPT !.mounted = TRUE]])

\* cleanup of the effect when the instance goes away
UnmountPlayer(W) ==
  LET S == StopWebRTC(W)
  IN [player |-> [S.player EXCEPT !.mounted = FALSE],
      attempts |-> [a \in AttemptIds |-> [S.attempts[a] EXCEPT !.cur = FALSE]]]

\* a card that shows the player whatever the camera's status
RenderedAnyStatus(cl, he, st) == ~cl /\ ~he

\* CameraCard renders the player (lines 94-135)
Rendered(cl, he, st) == ~cl /\ ~he /\ st = "active"

\* the commit that follows a change of the card's state
Commit(W, cl, he, st) ==
  IF host # "card" THEN W
  ELSE IF Rendered(cl, he, st) /\ ~W.player.mounted THEN MountPlayer(W)
  ELSE IF ~Rendered(cl, he, st) /\ W.player.mounted THEN UnmountPlayer(W)
  ELSE W

CanCommit(W, cl, he, st) ==
  (host = "card" /\ Rendered(cl, he, st) /\ ~W.player.mounted)
     => FreeIds(W.attempts) # {}

Apply(W, cl, he, st) ==
  /\ CanCommit(W, cl, he, st)
  /\ LET C == Commit(W, cl, he, st)
     IN player' = C.player /\ attempts' = C.attempts
  /\ cardIsLoading' = cl
  /\ hasError' = he
  /\ camStatus' = st
  /\ UNCHANGED <<host, notPlayer>>

\* onError and onPlaying as CameraCard passes them (lines 128-134)
OnError(he) == IF host = "card" THEN TRUE ELSE he
OnPlaying(he) == IF host = "card" THEN FALSE ELSE he

\* a catch block that sends the offer again
CatchRetry(W, a) ==
  [player |-> W.player,
   attempts |-> [W.attempts EXCEPT ![a].stage = "fetch", ![a].posts = @ + 1]]

\* a catch block that leaves the loading state on
CatchKeepsLoading(W, a) ==
  [player |-> IF W.attempts[a].cur THEN [W.player EXCEPT !.error = TRUE] ELSE W.player,
   attempts |-> [W.attempts EXCEPT ![a].stage = "failed", ![a].onErr = @ + 1]]

\* the catch block of startWebRTC (lines 108-114), before onError
Catch(W, a) ==
  [player |-> IF W.attempts[a].cur
                THEN [W.player EXCEPT !.error = TRUE, !.isLoading = FALSE]
                ELSE W.player,
   attempts |-> [W.attempts EXCEPT ![a].stage = "failed", ![a].onErr = @ + 1]]

\* CameraCard.handleStartCamera up to the await (lines 37-41)
HandleStartCamera ==
  /\ host = "card"
  /\ ~cardIsLoading
  /\ hasError \/ camStatus # "active"
  /\ Apply(World, TRUE, hasError, camStatus)

\* startCamera fulfilled: the store takes the returned camera, then
\* setHasError(false) and setIsLoading(false) (lines 42, 47)
StartFulfilled(st) ==
  /\ host = "card"
  /\ cardIsLoading
  /\ Apply(World, FALSE, FALSE, st)

\* startCamera rejected (lines 43-47)
StartRejected ==
  /\ host = "card"
  /\ cardIsLoading
  /\ Apply(World, FALSE, TRUE, camStatus)

\* 'camera_status' from the socket: updateCameraStatus
CameraStatusEvent(st) ==
  /\ host = "card"
  /\ st # camStatus
  /\ Apply(World, cardIsLoading, hasError, st)

\* handlePlayPause (lines 141-147); the controls show when not loading, no error
PlayPauseClick ==
  /\ player.mounted /\ ~player.isLoading /\ ~player.error
  /\ IF player.isPlaying
       THEN Apply(StopWebRTC(World), cardIsLoading, hasError, camStatus)
       ELSE /\ FreeIds(attempts) # {}
            /\ Apply(StartWebRTC(World), cardIsLoading, hasError, camStatus)

\* the retry button of the error overlay (lines 194-208)
RetryClick ==
  /\ player.mounted /\ player.error
  /\ FreeIds(attempts) # {}
  /\ Apply(StartWebRTC(World), cardIsLoading, hasError, camStatus)

\* pc.createOffer() resolves; setLocalDescription is called (lines 78-79)
OfferCreated(a) ==
  /\ attempts[a].stage = "createOffer"
  /\ attempts[a].pc = "open"
  /\ attempts' = [attempts EXCEPT ![a].stage = "setLocal", ![a].offer = a]
  /\ UNCHANGED <<host, camStatus, cardIsLoading, hasError, player, notPlayer>>

\* setLocalDescription resolves; the offer is POSTed (lines 79-91)
LocalSet(a) ==
  /\ attempts[a].stage = "setLocal"
  /\ attempts[a].pc = "open"
  /\ attempts' = [attempts EXCEPT ![a].stage = "fetch",
                                  ![a].posts = @ + 1,
                                  ![a].url = WhepUrl(webrtcUrl, cameraId),
                                  ![a].sent = attempts[a].offer]
  /\ UNCHANGED <<host, camStatus, cardIsLoading, hasError, player, notPlayer>>

\* the relay answers with a success status and body b (lines 93-98)
FetchOk(a, b) ==
  /\ attempts[a].stage = "fetch"
  /\ attempts' = [attempts EXCEPT ![a].stage = "text", ![a].resp = "ok",
                                  ![a].body = b]
  /\ UNCHANGED <<host, camStatus, cardIsLoading, hasError, player, notPlayer>>

\* the relay answers with a non-success status (lines 93-95, 108-114)
RelayReject(a) ==
  /\ attempts[a].stage = "fetch"
  /\ Apply(Catch([World EXCEPT !.attempts[a].resp = "bad"], a),
           cardIsLoading, OnError(hasError), camStatus)

\* response.text() resolves; setRemoteDescription is called, which throws on
\* a closed connection (lines 98-104)
TextRead(a) ==
  /\ attempts[a].stage = "text"
  /\ IF attempts[a].pc = "open"
       THEN Apply([World EXCEPT !.attempts[a].stage = "setRemote",
                                !.attempts[a].answer = attempts[a].body],
                  cardIsLoading, hasError, camStatus)
       ELSE Apply(Catch(World, a), cardIsLoading, OnError(hasError), camStatus)

\* setRemoteDescription resolves (line 106)
RemoteSet(a) ==
  /\ attempts[a].stage = "setRemote"
  /\ attempts[a].pc = "open"
  /\ attempts' = [attempts EXCEPT ![a].stage = "done"]
  /\ UNCHANGED <<host, camStatus, cardIsLoading, hasError, player, notPlayer>>

\* the awaited promise rejects: createOffer, setLocalDescription, fetch
\* (network error), text or setRemoteDescription (lines 108-114)
AttemptThrows(a) ==
  /\ attempts[a].stage \in {"createOffer", "setLocal", "fetch", "text", "setRemote"}
  /\ Apply(Catch(World, a), cardIsLoading, OnError(hasError), camStatus)

\* pc.ontrack (lines 49-57); videoRef.current exists while the instance is mounted
Track(a) ==
  /\ attempts[a].pc = "open"
  /\ attempts[a].stage \in {"setRemote", "done"}
  /\ attempts[a].cur
  /\ ~player.srcObject \/ player.isLoading \/ ~player.isPlaying
  /\ Apply([World EXCEPT !.player.srcObject = TRUE, !.player.isLoading = FALSE,
                         !.player.isPlaying = TRUE],
           cardIsLoading, OnPlaying(hasError), camStatus)

\* pc.onconnectionstatechange with 'failed' or 'disconnected' (lines 60-67)
ConnFailed(a) ==
  /\ attempts[a].pc = "open"
  /\ attempts[a].stage \in {"setRemote", "done"}
  /\ attempts[a].onErr < MaxOnErr
  /\ Apply([World EXCEPT !.player.error = IF attempts[a].cur THEN TRUE ELSE @,
                         !.attempts[a].onErr = @ + 1],
           cardIsLoading, OnError(hasError), camStatus)

\* onPlay of the video element (lines 177-180)
VideoPlay ==
  /\ player.mounted /\ player.srcObject
  /\ ~player.isPlaying \/ player.isLoading
  /\ player' = [player EXCEPT !.isPlaying = TRUE, !.isLoading = FALSE]
  /\ UNCHANGED <<host, camStatus, cardIsLoading, hasError, attempts, notPlayer>>

\* a player that is not inside a card is unmounted or mounted by its parent
ParentUnmount ==
  /\ host = "standalone"
  /\ player.mounted
  /\ LET U == UnmountPlayer(World)
     IN player' = U.player /\ attempts' = U.attempts
  /\ UNCHANGED <<host, camStatus, cardIsLoading, hasError, notPlayer>>

ParentMount ==
  /\ host = "standalone"
  /\ ~player.mounted
  /\ FreeIds(attempts) # {}
  /\ LET M == MountPlayer(World)
     IN player' = M.player /\ attempts' = M.attempts
  /\ UNCHANGED <<host, camStatus, cardIsLoading, hasError, notPlayer>>

EmptyWorld == [player |-> NoPlayer, attempts |-> [a \in AttemptIds |-> NoAttempt]]

PlayerIdle ==
  /\ host = "none"
  /\ camStatus = "inactive"
  /\ cardIsLoading = FALSE
  /\ hasError = FALSE
  /\ player = NoPlayer
  /\ attempts = EmptyWorld.attempts

InitPlayer ==
  /\ host \in {"card", "standalone"}
  /\ camStatus \in (IF host = "card" THEN CameraStatus ELSE {"active"})
  /\ cardIsLoading = FALSE
  /\ hasError = FALSE
  /\ LET W == IF host = "card"
                THEN IF Rendered(FALSE, FALSE, camStatus)
                       THEN MountPlayer(EmptyWorld) ELSE EmptyWorld
                ELSE MountPlayer(EmptyWorld)
     IN player = W.player /\ attempts = W.attempts

NextPlayer ==
  \/ HandleStartCamera
  \/ \E st \in CameraStatus : StartFulfilled(st)
  \/ StartRejected
  \/ \E st \in CameraStatus : CameraStatusEvent(st)
  \/ PlayPauseClick
  \/ RetryClick
  \/ \E a \in AttemptIds : OfferCreated(a)
  \/ \E a \in AttemptIds : LocalSet(a)
  \/ \E a \in AttemptIds, b \in Answers : FetchOk(a, b)
  \/ \E a \in AttemptIds : RelayReject(a)
  \/ \E a \in AttemptIds : TextRead(a)
  \/ \E a \in AttemptIds : RemoteSet(a)
  \/ \E a \in AttemptIds : AttemptThrows(a)
  \/ \E a \in AttemptIds : Track(a)
  \/ \E a \in AttemptIds : ConnFailed(a)
  \/ VideoPlay
  \/ ParentUnmount
  \/ ParentMount


(***************************************************************************)
(* startCamera (store/slices/camerasSlice) dispatched by                   *)
(* CameraCard.handleStartCamera (pages/Cameras.tsx) of each viewer.        *)
(***************************************************************************)
\* handleStartCamera up to the await: setIsLoading(true), dispatch; the thunk
\* issues POST /api/cameras/{id}/start at once
ViewerStart(v) ==
  /\ ~sIsLoading[v]
  /\ sHasError[v] \/ sStatus[v] # "active"
  /\ startPosts < MaxStartPosts
  /\ sIsLoading' = [sIsLoading EXCEPT ![v] = TRUE]
  /\ thunk' = [thunk EXCEPT ![v] = "pending"]
  /\ startPosts' = startPosts + 1
  /\ UNCHANGED <<sHasError, sStatus, notStart>>

\* response.ok: startCamera.fulfilled stores the returned camera, then
\* setHasError(false), setIsLoading(false)
ViewerStartFulfilled(v, st) ==
  /\ thunk[v] = "pending"
  /\ thunk' = [thunk EXCEPT ![v] = "idle"]
  /\ sStatus' = [sStatus EXCEPT ![v] = st]
  /\ sHasError' = [sHasError EXCEPT ![v] = FALSE]
  /\ sIsLoading' = [sIsLoading EXCEPT ![v] = FALSE]
  /\ UNCHANGED <<startPosts, notStart>>

\* !response.ok or a network error: startCamera.rejected, unwrap() throws,
\* setHasError(true), setIsLoading(false)
ViewerStartRejected(v) ==
  /\ thunk[v] = "pending"
  /\ thunk' = [thunk EXCEPT ![v] = "idle"]
  /\ sHasError' = [sHasError EXCEPT ![v] = TRUE]
  /\ sIsLoading' = [sIsLoading EXCEPT ![v] = FALSE]
  /\ UNCHANGED <<sStatus, startPosts, notStart>>

\* 'camera_status' from the socket: updateCameraStatus in that viewer's store
ViewerStatusEvent(v, st) ==
  /\ st # sStatus[v]
  /\ sStatus' = [sStatus EXCEPT ![v] = st]
  /\ UNCHANGED <<thunk, sIsLoading, sHasError, startPosts, notStart>>

StartIdle ==
  /\ thunk = [v \in Viewers |-> "idle"]
  /\ sIsLoading = [v \in Viewers |-> FALSE]
  /\ sHasError = [v \in Viewers |-> FALSE]
  /\ sStatus = [v \in Viewers |-> "inactive"]
  /\ startPosts = 0

InitStart == StartIdle

NextStart ==
  \/ \E v \in Viewers : ViewerStart(v)
  \/ \E v \in Viewers, st \in CameraStatus : ViewerStartFulfilled(v, st)
  \/ \E v \in Viewers : ViewerStartRejected(v)
  \/ \E v \in Viewers, st \in CameraStatus : ViewerStatusEvent(v, st)

(***************************************************************************)
(* WebRTCManager (services/webrtc.ts)                                      *)
(***************************************************************************)
ConnIds == 1..MaxConns

\* Map.has, Map.get, Map.set, Map.delete on a set of <<key, value>> entries
MapHas(m, k) == \E e \in m : e[1] = k
MapGet(m, k) == (CHOOSE e \in m : e[1] = k)[2]
MapSet(m, k, v) == {e \in m : e[1] # k} \cup {<<k, v>>}
MapDelete(m, k) == {e \in m : e[1] # k}

FreeConns == {i \in ConnIds : conns[i].peer = "noconn"}
NewConn == CHOOSE i \in FreeConns : \A j \in FreeConns : i <= j

\* closeConnection(cameraId) on a manager state M = [connections, conns]
CloseConnection(M, c) ==
  IF MapHas(M.connections, c)
    THEN LET i == MapGet(M.connections, c)
         IN [connections |-> MapDelete(M.connections, c),
             conns |-> [M.conns EXCEPT ![i] = ConnDisconnect(@)]]
    ELSE M

Manager == [connections |-> connections, conns |-> conns]

\* createConnection(cameraId, signalData) up to its await (lines 246-260)
MgrCreateConnection(c, signalData, throws) ==
  /\ FreeConns # {}
  /\ LET i == NewConn
         M == IF MapHas(connections, c) THEN CloseConnection(Manager, c) ELSE Manager
     IN /\ connections' = MapSet(M.connections, c, i)
        /\ conns' = [M.conns EXCEPT ![i] = ConnConnect(NewConnection, signalData, throws)]
  /\ registrations' = [registrations EXCEPT ![c] = @ + 1]
  /\ UNCHANGED <<unregistrations, notManager>>

\* closeConnection(cameraId) (lines 278-284)
MgrCloseConnection(c) ==
  /\ LET M == CloseConnection(Manager, c)
     IN connections' = M.connections /\ conns' = M.conns
  /\ unregistrations' = IF MapHas(connections, c)
                          THEN [unregistrations EXCEPT ![c] = @ + 1]
                          ELSE unregistrations
  /\ UNCHANGED <<registrations, notManager>>

\* closeAllConnections() (lines 289-294)
MgrCloseAllConnections ==
  /\ connections # {}
  /\ conns' = [i \in ConnIds |->
                 IF \E e \in connections : e[2] = i
                   THEN ConnDisconnect(conns[i]) ELSE conns[i]]
  /\ connections' = {}
  /\ unregistrations' = [c \in Cameras |->
                           IF MapHas(connections, c)
                             THEN unregistrations[c] + 1 ELSE unregistrations[c]]
  /\ UNCHANGED <<registrations, notManager>>

\* events of the SimplePeer of connection i
MgrPeerConnect(i) ==
  /\ conns[i].peer = "open" /\ ~conns[i].connected
  /\ conns' = [conns EXCEPT ![i] = ConnOnPeerConnect(@)]
  /\ UNCHANGED <<connections, registrations, unregistrations, notManager>>

MgrPeerError(i) ==
  /\ conns[i].peer = "open"
  /\ conns' = [conns EXCEPT ![i] = ConnOnPeerClose(ConnOnPeerError(@))]
  /\ UNCHANGED <<connections, registrations, unregistrations, notManager>>

MgrPeerClose(i) ==
  /\ conns[i].peer = "open"
  /\ conns' = [conns EXCEPT ![i] = ConnOnPeerClose(@)]
  /\ UNCHANGED <<connections, registrations, unregistrations, notManager>>

\* the 10 s timer of connect(signalData) fires
MgrTimeout(i) ==
  /\ conns[i].timer
  /\ conns' = [conns EXCEPT ![i] = ConnTimeout(@)]
  /\ UNCHANGED <<connections, registrations, unregistrations, notManager>>

ManagerIdle ==
  /\ connections = {}
  /\ conns = [i \in ConnIds |-> NoConn]
  /\ registrations = [c \in Cameras |-> 0]
  /\ unregistrations = [c \in Cameras |-> 0]

InitManager == ManagerIdle

NextManager ==
  \/ \E c \in Cameras, sd \in BOOLEAN, th \in BOOLEAN : MgrCreateConnection(c, sd, th)
  \/ \E c \in Cameras : MgrCloseConnection(c)
  \/ MgrCloseAllConnections
  \/ \E i \in ConnIds : MgrPeerConnect(i)
  \/ \E i \in ConnIds : MgrPeerError(i)
  \/ \E i \in ConnIds : MgrPeerClose(i)
  \/ \E i \in ConnIds : MgrTimeout(i)

(***************************************************************************)
(* WebRTCConnection (services/webrtc.ts) driven through its public methods *)
(* by a caller that creates the objects itself, as useWebRTC does.  The    *)
(* objects live in conns; the Map of the manager stays empty.              *)
(***************************************************************************)
\* new WebRTCConnection(cameraId) (lines 36-47)
ConnectionNew ==
  /\ FreeConns # {}
  /\ NewConn <= MaxObjects
  /\ conns' = [conns EXCEPT ![NewConn] = NewConnection]
  /\ UNCHANGED <<connections, registrations, unregistrations, notManager>>

\* connection.on(event, handler) (lines 168-176)
ConnectionOn(i) ==
  /\ conns[i].peer # "noconn"
  /\ ~conns[i].handlers
  /\ conns' = [conns EXCEPT ![i] = ConnOn(@)]
  /\ UNCHANGED <<connections, registrations, unregistrations, notManager>>

\* connection.connect(signalData), called once per object (lines 53-123)
ConnectionConnect(i, signalData, throws) ==
  /\ conns[i].peer = "null"
  /\ conns[i].promise = "none"
  /\ conns' = [conns EXCEPT ![i] = ConnConnect(@, signalData, throws)]
  /\ UNCHANGED <<connections, registrations, unregistrations, notManager>>

\* connection.disconnect() (lines 152-160)
ConnectionDisconnect(i) ==
  /\ conns[i].peer # "noconn"
  /\ conns' = [conns EXCEPT ![i] = ConnDisconnect(@)]
  /\ UNCHANGED <<connections, registrations, unregistrations, notManager>>

InitConnection == ManagerIdle

NextConnection ==
  \/ ConnectionNew
  \/ \E i \in ConnIds : ConnectionOn(i)
  \/ \E i \in ConnIds, sd \in BOOLEAN, th \in BOOLEAN : ConnectionConnect(i, sd, th)
  \/ \E i \in ConnIds : ConnectionDisconnect(i)
  \/ \E i \in ConnIds : MgrPeerConnect(i)
  \/ \E i \in ConnIds : MgrPeerError(i)
  \/ \E i \in ConnIds : MgrPeerClose(i)
  \/ \E i \in ConnIds : MgrTimeout(i)

(***************************************************************************)
(* WebSocketService (services/websocket)                                   *)
(***************************************************************************)
SocketIds == 1..MaxSockets

FreeSockets == {i \in SocketIds : sockets[i] = "unused"}
NewSocket == CHOOSE i \in FreeSockets : \A j \in FreeSockets : i <= j

\* a 'connect' handler that leaves the counter as it is
OnConnectKeeps(n) == n

\* socket.on('connect'): this.reconnectAttempts = 0
OnConnect(n) == 0

\* socket.on('connect_error'): this.reconnectAttempts++
OnConnectError(n) == n + 1

\* connect(): a new socket replaces this.socket unless that one is connected;
\* the socket it replaces keeps its listeners and is not closed
WsConnect ==
  /\ ~(socket # 0 /\ sockets[socket] = "connected")
  /\ FreeSockets # {}
  /\ socket' = NewSocket
  /\ sockets' = [sockets EXCEPT ![NewSocket] = "connecting"]
  /\ UNCHANGED <<reconnectAttempts, connectionErrorLogged, errorsSinceConnect,
                 wsLast, notWs>>

\* disconnect(): socket.disconnect() emits 'disconnect' when it was connected
WsDisconnect ==
  /\ socket # 0
  /\ sockets' = [sockets EXCEPT ![socket] = "closed"]
  /\ socket' = 0
  /\ wsLast' = IF sockets[socket] = "connected" THEN "disconnect" ELSE wsLast
  /\ UNCHANGED <<reconnectAttempts, connectionErrorLogged, errorsSinceConnect,
                 notWs>>

\* socket i emits 'connect'
SockConnect(i) ==
  /\ sockets[i] = "connecting"
  /\ sockets' = [sockets EXCEPT ![i] = "connected"]
  /\ reconnectAttempts' = OnConnect(reconnectAttempts)
  /\ errorsSinceConnect' = 0
  /\ wsLast' = "connect"
  /\ UNCHANGED <<socket, connectionErrorLogged, notWs>>

\* socket i emits 'disconnect' and socket.io starts to reconnect it
SockDisconnect(i) ==
  /\ sockets[i] = "connected"
  /\ sockets' = [sockets EXCEPT ![i] = "connecting"]
  /\ wsLast' = "disconnect"
  /\ UNCHANGED <<socket, reconnectAttempts, connectionErrorLogged,
                 errorsSinceConnect, notWs>>

\* socket i emits 'connect_error'; socket.io tries again, or gives up when its
\* reconnectionAttempts are used
SockConnectError(i, givesUp) ==
  /\ sockets[i] = "connecting"
  /\ errorsSinceConnect < MaxConnectErrors
  /\ sockets' = [sockets EXCEPT ![i] = IF givesUp THEN "closed" ELSE "connecting"]
  /\ reconnectAttempts' = OnConnectError(reconnectAttempts)
  /\ connectionErrorLogged' = TRUE
  /\ errorsSinceConnect' = errorsSinceConnect + 1
  /\ wsLast' = "connect_error"
  /\ UNCHANGED <<socket, notWs>>

WsIdle ==
  /\ socket = 0
  /\ sockets = [i \in SocketIds |-> "unused"]
  /\ reconnectAttempts = 0
  /\ connectionErrorLogged = FALSE
  /\ errorsSinceConnect = 0
  /\ wsLast = "none"

InitWs == WsIdle

NextWs ==
  \/ WsConnect
  \/ WsDisconnect
  \/ \E i \in SocketIds : SockConnect(i)
  \/ \E i \in SocketIds : SockDisconnect(i)
  \/ \E i \in SocketIds, g \in BOOLEAN : SockConnectError(i, g)

(***************************************************************************)
(* emit(event, data) of WebSocketService (services/websocket) and of       *)
(* WebRTCConnection (services/webrtc.ts): the same code.  One event name   *)
(* is modelled; its Set of handlers is a sequence without repetition.      *)
(***************************************************************************)
HandlerIds == 1..MaxHandlers

\* what a handler does when it is called: it returns, it throws, or it
\* returns a promise that is still pending (an async handler)
Outcomes == {"returns", "throws", "pending"}

Range(q) == {q[i] : i \in 1..Len(q)}

\* Set.delete
SetDelete(q, h) == SelectSeq(q, LAMBDA x : x # h)

\* the entry forEach visits next: the first one not visited yet
Unvisited(q, done) == SelectSeq(q, LAMBDA x : x \notin done)

\* a forEach body that calls the handler without try/catch
AfterHandlerUnguarded(o) == IF o = "throws" THEN "aborted" ELSE "running"

\* forEach body: try { handler(data) } catch { console.error }; the value
\* the handler returns is not awaited
AfterHandler(o) == "running"

\* on(event, handler)
EmitOn(h) ==
  /\ emitState # "running"
  /\ h \notin Range(evHandlers)
  /\ evHandlers' = Append(evHandlers, h)
  /\ UNCHANGED <<emitState, called, delivered, atStart, expected, threw, notEmit>>

\* off(event, handler), between two emits
EmitOff(h) ==
  /\ emitState # "running"
  /\ h \in Range(evHandlers)
  /\ evHandlers' = SetDelete(evHandlers, h)
  /\ UNCHANGED <<emitState, called, delivered, atStart, expected, threw, notEmit>>

\* emit(event, data) is entered: handlers.get(event), forEach starts
EmitStart ==
  /\ emitState # "running"
  /\ emitState' = IF evHandlers = <<>> THEN "done" ELSE "running"
  /\ called' = {}
  /\ delivered' = <<>>
  /\ threw' = {}
  /\ atStart' = Range(evHandlers)
  /\ expected' = Range(evHandlers)
  /\ UNCHANGED <<evHandlers, notEmit>>

\* forEach calls the next handler, whose outcome is o; while it runs the
\* handler unsubscribes handler gone (0 for none)
EmitCall(o, gone) ==
  /\ emitState = "running"
  /\ Unvisited(evHandlers, called) # <<>>
  /\ gone = 0 \/ gone \in Range(evHandlers)
  /\ LET h == Head(Unvisited(evHandlers, called))
         rest == SetDelete(evHandlers, gone)
         after == AfterHandler(o)
     IN /\ called' = called \cup {h}
        /\ delivered' = Append(delivered, h)
        /\ threw' = IF o = "throws" THEN threw \cup {h} ELSE threw
        /\ evHandlers' = rest
        /\ expected' = IF gone \in called' THEN expected ELSE expected \ {gone}
        /\ emitState' = IF after = "running" /\ Unvisited(rest, called') = <<>>
                           THEN "done" ELSE after
  /\ UNCHANGED <<atStart, notEmit>>

EmitIdle ==
  /\ evHandlers = <<>>
  /\ emitState = "idle"
  /\ called = {}
  /\ delivered = <<>>
  /\ atStart = {}
  /\ expected = {}
  /\ threw = {}

InitEmit == EmitIdle

NextEmit ==
  \/ \E h \in HandlerIds : EmitOn(h)
  \/ \E h \in HandlerIds : EmitOff(h)
  \/ EmitStart
  \/ \E o \in Outcomes, g \in HandlerIds \cup {0} : EmitCall(o, g)

(***************************************************************************)
(* eventsSlice (store/slices/eventsSlice.ts): events and                   *)
(* unacknowledgedCount.  The list is kept as its front part, written out,  *)
(* and the number of events of the last fetch result behind it, which all  *)
(* carry the same acknowledged flag; updateEvent and acknowledgeEvent are  *)
(* given the id of a front event or an id that is not in the list.         *)
(***************************************************************************)
\* the lengths of the lists the server returns to fetchEvents
FetchSizes == {0, 1, EventsLimit - 1, EventsLimit, EventsLimit + 1}

EventsList == [recent |-> evRecent, oldLen |-> evOldLen]

\* state.events.length
EventsLength(L) == Len(L.recent) + L.oldLen

\* events.unshift(e)
Unshift(L, e) == [L EXCEPT !.recent = <<e>> \o @]

\* a cut that keeps the last k events of the list
SliceTail(L, k) ==
  IF L.oldLen >= k
    THEN [recent |-> <<>>, oldLen |-> k]
    ELSE [recent |-> SubSeq(L.recent, Len(L.recent) - (k - L.oldLen) + 1,
                            Len(L.recent)),
          oldLen |-> L.oldLen]

\* events.slice(0, k): the first k events of the list
Slice(L, k) ==
  IF Len(L.recent) >= k
    THEN [recent |-> SubSeq(L.recent, 1, k), oldLen |-> 0]
    ELSE [recent |-> L.recent,
          oldLen |-> IF L.oldLen <= k - Len(L.recent)
                       THEN L.oldLen ELSE k - Len(L.recent)]

\* events.findIndex(e => e.id === id) among the front events, 0 for -1
FindIndex(q, id) ==
  IF \E i \in 1..Len(q) : q[i].id = id
    THEN CHOOSE i \in 1..Len(q) :
           q[i].id = id /\ \A j \in 1..(i - 1) : q[j].id # id
    ELSE 0

\* Math.max(0, n - 1)
DecCount(n) == IF n - 1 > 0 THEN n - 1 ELSE 0

\* addEvent (lines 84-93)
AddEvent(ack) ==
  /\ nextEventId <= MaxAdds
  /\ LET e == [id |-> nextEventId, acknowledged |-> ack]
         U == Unshift(EventsList, e)
         L == IF EventsLength(U) > EventsLimit THEN Slice(U, EventsLimit) ELSE U
     IN /\ evRecent' = L.recent
        /\ evOldLen' = L.oldLen
  /\ unacknowledgedCount' = IF ~ack THEN unacknowledgedCount + 1
                                    ELSE unacknowledgedCount
  /\ nextEventId' = nextEventId + 1
  /\ UNCHANGED <<evOldAck, notEvents>>

\* updateEvent (lines 95-107) with an event of the given id and flag
UpdateEvent(id, ack) ==
  /\ LET index == FindIndex(evRecent, id)
     IN IF index # 0
          THEN /\ evRecent' = [evRecent EXCEPT
                                 ![index] = [id |-> id, acknowledged |-> ack]]
               /\ unacknowledgedCount' =
                    IF ~evRecent[index].acknowledged /\ ack
                      THEN DecCount(unacknowledgedCount)
                      ELSE unacknowledgedCount
          ELSE UNCHANGED <<evRecent, unacknowledgedCount>>
  /\ UNCHANGED <<evOldLen, evOldAck, nextEventId, notEvents>>

\* fetchEvents.fulfilled (lines 132-136): the list becomes the n events the
\* server returned, all with the flag ack
FetchEventsFulfilled(n, ack) ==
  /\ evRecent' = <<>>
  /\ evOldLen' = n
  /\ evOldAck' = ack
  /\ unacknowledgedCount' = IF ack THEN 0 ELSE n
  /\ nextEventId' = 1
  /\ UNCHANGED notEvents

\* acknowledgeEvent.fulfilled (lines 143-149) for the event of the given id
AcknowledgeEventFulfilled(id) ==
  /\ LET index == FindIndex(evRecent, id)
     IN IF index # 0 /\ ~evRecent[index].acknowledged
          THEN /\ evRecent' = [evRecent EXCEPT ![index].acknowledged = TRUE]
               /\ unacknowledgedCount' = DecCount(unacknowledgedCount)
          ELSE UNCHANGED <<evRecent, unacknowledgedCount>>
  /\ UNCHANGED <<evOldLen, evOldAck, nextEventId, notEvents>>

\* clearEvents (lines 117-120)
ClearEvents ==
  /\ evRecent' = <<>>
  /\ evOldLen' = 0
  /\ unacknowledgedCount' = 0
  /\ nextEventId' = 1
  /\ UNCHANGED <<evOldAck, notEvents>>

EventsIdle ==
  /\ evRecent = <<>>
  /\ evOldLen = 0
  /\ evOldAck = TRUE
  /\ unacknowledgedCount = 0
  /\ nextEventId = 1

InitEvents == EventsIdle

NextEvents ==
  \/ \E ack \in BOOLEAN : AddEvent(ack)
  \/ \E id \in 0..MaxAdds, ack \in BOOLEAN : UpdateEvent(id, ack)
  \/ \E n \in FetchSizes, ack \in BOOLEAN : FetchEventsFulfilled(n, ack)
  \/ \E id \in 0..MaxAdds : AcknowledgeEventFulfilled(id)
  \/ ClearEvents


(***************************************************************************)
(* authSlice (store/slices/authSlice) and the logout of ApiService         *)
(* (services/api.ts).  A logout request ends in one of three ways: the     *)
(* server answers with a success status ("ok"), with a non-success status  *)
(* ("bad"), or fetch rejects ("network").                                  *)
(***************************************************************************)
Tokens == {"t1", "t2"}
Replies == {"ok", "bad", "network"}

\* the logout thunk (lines 46-49) is fulfilled when `await fetch` returns: a
\* response of any status; it is rejected when fetch rejects
LogoutFulfilled(r) == r # "network"

\* ApiService.request (lines 26-67): its result.success
RequestSuccess(r) == r = "ok"

\* dispatch(loginAsync(credentials)): loginAsync.pending (lines 80-82)
LoginPending ==
  /\ loginThunk = "idle"
  /\ loginThunk' = "pending"
  /\ authIsLoading' = TRUE
  /\ UNCHANGED <<authUser, authToken, isAuthenticated, localToken, apiToken,
                 logoutThunk, apiLogout, lastLogout, notAuth>>

\* loginAsync.fulfilled with the token the server issued (lines 83-89)
LoginFulfilled(t) ==
  /\ loginThunk = "pending"
  /\ loginThunk' = "idle"
  /\ authIsLoading' = FALSE
  /\ authUser' = TRUE
  /\ authToken' = t
  /\ isAuthenticated' = TRUE
  /\ localToken' = t
  /\ lastLogout' = "none"
  /\ UNCHANGED <<apiToken, logoutThunk, apiLogout, notAuth>>

\* loginAsync.rejected (lines 90-93)
LoginRejected ==
  /\ loginThunk = "pending"
  /\ loginThunk' = "idle"
  /\ authIsLoading' = FALSE
  /\ isAuthenticated' = FALSE
  /\ UNCHANGED <<authUser, authToken, localToken, apiToken, logoutThunk,
                 apiLogout, lastLogout, notAuth>>

\* TopNavigationBar.handleLogout: dispatch(logout()); the thunk issues the
\* request (line 47)
LogoutDispatch ==
  /\ isAuthenticated
  /\ logoutThunk = "idle"
  /\ logoutThunk' = "pending"
  /\ UNCHANGED <<authUser, authToken, isAuthenticated, authIsLoading, localToken,
                 apiToken, loginThunk, apiLogout, lastLogout, notAuth>>

\* the request of the logout thunk ends with r: the rest of the thunk
\* (line 48) and logout.fulfilled (lines 96-100), or the rejection, for which
\* the slice has no case
LogoutSettles(r) ==
  /\ logoutThunk = "pending"
  /\ logoutThunk' = "idle"
  /\ IF LogoutFulfilled(r)
       THEN /\ localToken' = "none"
            /\ authUser' = FALSE
            /\ authToken' = "none"
            /\ isAuthenticated' = FALSE
            /\ lastLogout' = "fulfilled"
       ELSE /\ UNCHANGED <<localToken, authUser, authToken, isAuthenticated>>
            /\ lastLogout' = "rejected"
  /\ UNCHANGED <<authIsLoading, apiToken, loginThunk, apiLogout, notAuth>>

\* ApiService.logout() up to its await (line 84)
ApiLogout ==
  /\ apiLogout = "idle"
  /\ apiLogout' = "pending"
  /\ UNCHANGED <<authUser, authToken, isAuthenticated, authIsLoading, localToken,
                 apiToken, loginThunk, logoutThunk, lastLogout, notAuth>>

\* request() returns, whatever r is; clearToken() (lines 21-24, 85-86)
ApiLogoutSettles(r) ==
  /\ apiLogout = "pending"
  /\ apiLogout' = "idle"
  /\ apiToken' = "none"
  /\ localToken' = "none"
  /\ lastLogout' = IF RequestSuccess(r) THEN "success" ELSE "failure"
  /\ UNCHANGED <<authUser, authToken, isAuthenticated, authIsLoading, loginThunk,
                 logoutThunk, notAuth>>

AuthIdle ==
  /\ authUser = FALSE
  /\ authToken = "none"
  /\ isAuthenticated = FALSE
  /\ authIsLoading = FALSE
  /\ localToken = "none"
  /\ apiToken = "none"
  /\ loginThunk = "idle"
  /\ logoutThunk = "idle"
  /\ apiLogout = "idle"
  /\ lastLogout = "none"

\* initialState (lines 7-12) and the ApiService constructor (api.ts:11-14):
\* all read the token the browser has stored
InitAuth ==
  /\ localToken \in Tokens \cup {"none"}
  /\ authUser = FALSE
  /\ authToken = localToken
  /\ isAuthenticated = (localToken # "none")
  /\ authIsLoading = FALSE
  /\ apiToken = localToken
  /\ loginThunk = "idle"
  /\ logoutThunk = "idle"
  /\ apiLogout = "idle"
  /\ lastLogout = "none"

NextAuth ==
  \/ LoginPending
  \/ \E t \in Tokens : LoginFulfilled(t)
  \/ LoginRejected
  \/ LogoutDispatch
  \/ \E r \in Replies : LogoutSettles(r)
  \/ ApiLogout
  \/ \E r \in Replies : ApiLogoutSettles(r)

(***************************************************************************)
(* Specifications                                                          *)
(***************************************************************************)
HookIdle ==
  /\ mounted = "none"
  /\ isConnecting = FALSE
  /\ isConnected = FALSE
  /\ error = FALSE
  /\ stream = FALSE
  /\ connectionRef = NoConn
  /\ requestSent = FALSE
  /\ orphans = [s \in OrphanStates |-> 0]
  /\ reconnectTimeoutRef = "null"
  /\ leakedTimers = 0
  /\ isUnmountedRef = FALSE
  /\ wsConnected = FALSE
  /\ retryCount = 0
  /\ stopped = FALSE
  /\ hookCameraId = "none"
  /\ lastDelay = 0
  /\ prevDelay = 0
  /\ signalHandlers = 0

\* useWebRTC
Init ==
  InitHook /\ PlayerIdle /\ StartIdle /\ ManagerIdle /\ WsIdle /\ EmitIdle
  /\ EventsIdle /\ AuthIdle
Next == NextHook
Spec == Init /\ [][Next]_vars

\* WebRTCPlayer in CameraCard
PlayerInit ==
  InitPlayer /\ HookIdle /\ StartIdle /\ ManagerIdle /\ WsIdle /\ EmitIdle
  /\ EventsIdle /\ AuthIdle
SpecPlayer == PlayerInit /\ [][NextPlayer]_vars

\* startCamera from two clients
StartInit ==
  InitStart /\ HookIdle /\ PlayerIdle /\ ManagerIdle /\ WsIdle /\ EmitIdle
  /\ EventsIdle /\ AuthIdle
SpecStart == StartInit /\ [][NextStart]_vars

\* WebRTCManager
ManagerInit ==
  InitManager /\ HookIdle /\ PlayerIdle /\ StartIdle /\ WsIdle /\ EmitIdle
  /\ EventsIdle /\ AuthIdle
SpecManager == ManagerInit /\ [][NextManager]_vars

\* WebRTCConnection
ConnectionInit ==
  InitConnection /\ HookIdle /\ PlayerIdle /\ StartIdle /\ WsIdle /\ EmitIdle
  /\ EventsIdle /\ AuthIdle
SpecConnection == ConnectionInit /\ [][NextConnection]_vars

\* WebSocketService
WsInit ==
  InitWs /\ HookIdle /\ PlayerIdle /\ StartIdle /\ ManagerIdle /\ EmitIdle
  /\ EventsIdle /\ AuthIdle
SpecWs == WsInit /\ [][NextWs]_vars

\* emit
EmitInit ==
  InitEmit /\ HookIdle /\ PlayerIdle /\ StartIdle /\ ManagerIdle /\ WsIdle
  /\ EventsIdle /\ AuthIdle
SpecEmit == EmitInit /\ [][NextEmit]_vars

\* eventsSlice
EventsInit ==
  InitEvents /\ HookIdle /\ PlayerIdle /\ StartIdle /\ ManagerIdle /\ WsIdle
  /\ EmitIdle /\ AuthIdle
SpecEvents == EventsInit /\ [][NextEvents]_vars

\* authSlice and ApiService
AuthInit ==
  InitAuth /\ HookIdle /\ PlayerIdle /\ StartIdle /\ ManagerIdle /\ WsIdle
  /\ EmitIdle /\ EventsIdle
SpecAuth == AuthInit /\ [][NextAuth]_vars

\* Scheduling of the player: the browser's own steps of a negotiation complete;
\* nothing is assumed of the relay.
FairSpecPlayer ==
  /\ PlayerInit
  /\ [][NextPlayer]_vars
  /\ \A a \in AttemptIds :
       /\ WF_vars(OfferCreated(a))
       /\ WF_vars(LocalSet(a))
       /\ WF_vars(TextRead(a))
       /\ WF_vars(RemoteSet(a))

\* Scheduling of the hook: an armed setTimeout fires; a server that received
\* request_webrtc_stream makes the peer of connectionRef connect or fail.
\* Nothing is assumed of a peer whose request never left the client.
AnsweredPeer ==
  /\ requestSent
  /\ PeerConnect("ref") \/ PeerError("ref")

FairSpecHook ==
  /\ Init
  /\ [][Next]_vars
  /\ WF_vars(\E w \in {"ref", "leaked"} : TimerFire(w))
  /\ WF_vars(AnsweredPeer)

\* Scheduling of the manager: an armed timeout fires, and the network makes
\* an open peer that is not yet connected connect or fail.  Nothing is
\* assumed of the callers of the manager.
FairSpecManager ==
  /\ ManagerInit
  /\ [][NextManager]_vars
  /\ \A i \in ConnIds :
       /\ WF_vars(MgrTimeout(i))
       /\ WF_vars(MgrPeerConnect(i) \/ (~conns[i].connected /\ MgrPeerError(i)))

(***************************************************************************)
(* Claims about useWebRTC                                                  *)
(***************************************************************************)

\* C1: once the session is stopped by disconnect() (explicit or at unmount),
\* no auto-reconnect timer stays armed, whatever 'error' and 'disconnected'
\* events came before the stop.
C1_StopCancelsReconnect == stopped => NoTimerPending

\* C2: once more than the configured maximum of consecutive attempts have
\* failed, the session is closed: no reconnect is scheduled and no attempt is
\* in progress.
C2_RetryBudget ==
  retryCount > maxReconnectAttempts => NoTimerPending /\ ~isConnecting

\* C4: a session that is connecting or waiting for a reconnect eventually
\* shows an outcome: connected, an error, or the explicit idle state.
HookPending == mounted = "mounted" /\ (isConnecting \/ ~NoTimerPending)
HookSettled ==
  \/ mounted = "unmounted"
  \/ isConnected
  \/ error
  \/ ~isConnecting /\ NoTimerPending
C4_NeverSilentHang == HookPending ~> HookSettled

(***************************************************************************)
(* Claims about WebRTCPlayer and CameraCard                                *)
(***************************************************************************)

\* C3: a negotiation whose WHEP POST gets no answer does not stay pending
\* for ever: the attempt leaves the await of the POST.
C3_NegotiationTimeout ==
  \A a \in AttemptIds :
    (attempts[a].stage = "fetch") ~> (attempts[a].stage # "fetch")

\* C7: a WHEP POST is only issued while the card's camera has status
\* 'active'.
C7_NoPostUnlessActive ==
  [][\A a \in AttemptIds :
       (host = "card" /\ attempts'[a].posts > attempts[a].posts)
          => camStatus = "active" /\ camStatus' = "active"]_vars

C7_Witness ==
  /\ host = "card"
  /\ camStatus # "active"
  /\ \E a \in AttemptIds :
       /\ attempts[a].pc = "closed"
       /\ attempts[a].stage \in {"createOffer", "setLocal"}
       /\ attempts[a].posts = 0

\* C8: an attempt issues at most one POST, and an attempt that has ended
\* (failed or done) never issues another one nor resumes.
C8_OnePostPerAttempt ==
  [][\A a \in AttemptIds :
       /\ attempts'[a].posts <= 1
       /\ attempts[a].stage \in {"failed", "done"}
            => /\ attempts'[a].posts = attempts[a].posts
               /\ attempts'[a].stage = attempts[a].stage]_vars

C8_Witness ==
  \E a \in AttemptIds :
    /\ attempts[a].stage = "failed"
    /\ attempts[a].posts = 1
    /\ attempts[a].resp = "none"

\* C9: when the relay answers the POST with a non-success status, the
\* attempt ends failed with onError called once and no remote answer
\* applied, and the instance that started it has its error set and its
\* loading state cleared.
C9_RelayRejected ==
  [][\A a \in AttemptIds :
       attempts'[a].resp = "bad"
         => /\ attempts'[a].stage = "failed"
            /\ attempts'[a].onErr = 1
            /\ attempts'[a].answer = "none"
            /\ (attempts[a].resp # "bad" /\ attempts[a].cur)
                 => player'.error /\ ~player'.isLoading]_vars

C9_Witness ==
  \E a \in AttemptIds :
    /\ attempts[a].resp = "bad"
    /\ attempts[a].stage = "failed"
    /\ attempts[a].cur
    /\ player.mounted /\ player.error /\ ~player.isLoading

\* C10: the offer of the attempt is POSTed to <relay>/<cameraId>/whep, and
\* the answer applied to the peer connection is the body of the relay's
\* success response, nothing else.
C10_WhepExchange ==
  \A a \in AttemptIds :
    /\ attempts[a].posts > 0
         => /\ attempts[a].url = "http://localhost:8889/cam1_h264/whep"
            /\ attempts[a].sent = a
    /\ attempts[a].answer # "none"
         => attempts[a].resp = "ok" /\ attempts[a].answer = attempts[a].body
    /\ attempts[a].stage \in {"setRemote", "done"}
         => attempts[a].answer \in Answers

C10_Witness ==
  \E a \in AttemptIds :
    /\ attempts[a].stage = "done"
    /\ attempts[a].answer = "sdpB"
    /\ attempts[a].posts = 1

(***************************************************************************)
(* Claims about startCamera and WebRTCManager                              *)
(***************************************************************************)

\* C5: start requests for the same camera that is not yet started lead to
\* one start invocation: at most one POST .../start is in flight.
C5_ExactlyOneStart ==
  Cardinality({v \in Viewers : thunk[v] = "pending"}) <= 1

\* C6: the viewer count of a camera equals its registrations minus its
\* unregistrations and is never negative.
ViewerCount(c) == Cardinality({e \in connections : e[1] = c})
C6_ViewerCount ==
  \A c \in Cameras :
    /\ ViewerCount(c) = registrations[c] - unregistrations[c]
    /\ ViewerCount(c) >= 0

(***************************************************************************)
(* Claims about the registry of WebRTCManager                              *)
(***************************************************************************)

\* a connection that is over: disconnect() ran (peer = null), the SimplePeer
\* emitted 'close', or the promise of connect() was rejected
ConnClosed(c) == c.peer \in {"null", "closed"} \/ c.promise = "rejected"

\* C11: the map of WebRTCManager holds no connection that was closed
\* explicitly, whose connect attempt failed, or whose peer was closed by the
\* remote side.
C11_ClosedNotRegistered == \A e \in connections : ~ConnClosed(conns[e[2]])

(***************************************************************************)
(* Claims about WebSocketService                                           *)
(***************************************************************************)

\* C12: reconnectAttempts is zero right after a 'connect' event, and at any
\* time it equals the number of 'connect_error' events since the last
\* 'connect'.
C12_RetryCountResets ==
  /\ reconnectAttempts = errorsSinceConnect
  /\ wsLast = "connect" => reconnectAttempts = 0

C12_Witness ==
  /\ wsLast = "connect"
  /\ connectionErrorLogged
  /\ reconnectAttempts = 0
  /\ \E i \in SocketIds : sockets[i] = "connected"

(***************************************************************************)
(* Claims about the reconnection of useWebRTC                              *)
(***************************************************************************)
Min(a, b) == IF a <= b THEN a ELSE b

\* the caps a backoff can be configured with: above the base delay
Caps == {reconnectDelay * 2^k : k \in 1..maxReconnectAttempts}

\* C13: the wait armed at a drop is min(baseDelay * 2^retryCount, maxDelay),
\* with the base delay reconnectDelay, for some cap above the base delay;
\* retryCount is read either before or after its increment at the drop.
C13_BackoffFormula ==
  lastDelay # 0 =>
    \E m \in Caps, n \in {retryCount - 1, retryCount} :
      lastDelay = Min(reconnectDelay * 2^n, m)

\* C14: over consecutive drops of one session the reconnect delay never
\* decreases, and it never exceeds the cap (no cap is below the base delay).
C14_MonotoneBackoff ==
  lastDelay # 0 => prevDelay <= lastDelay /\ lastDelay <= reconnectDelay

C14_Witness == retryCount >= 3 /\ prevDelay # 0 /\ lastDelay # 0

\* C17: one hook never has more than one live WebRTCConnection.
LiveConnections == NumOrphans + (IF connectionRef.peer = "open" THEN 1 ELSE 0)
C17_SingleConnection == LiveConnections <= 1

\* C18: when the cameraId of the hook changes, a connection for the new
\* camera is started, and the 'connected' event of the hook's connection
\* sets isConnected.
C18_CameraSwitch ==
  [][/\ hookCameraId' # hookCameraId => connectionRef' # NoConn
     /\ (connectionRef.peer = "open" /\ ~connectionRef.connected
           /\ connectionRef'.connected) => isConnected']_vars

\* C19: reconnect() leaves the hook with a new connection attempt, whatever
\* the state before the call.
C19_ManualReconnect == [][UserReconnect => connectionRef' # NoConn]_vars

(***************************************************************************)
(* Claims about emit                                                       *)
(***************************************************************************)

C20_EventsBounded ==
  /\ EventsLength(EventsList) <= EventsLimit
  /\ \A i \in 1..Len(evRecent) : evRecent[i].id = nextEventId - i


(***************************************************************************)
(* Claims about the signaling subscriptions of useWebRTC                   *)
(***************************************************************************)

\* C21: the 'webrtc_signal' handlers a hook has registered on the WebSocket
\* service never outnumber its live connections: the handler of a connection
\* is removed when the connection is disconnected or replaced.
C21_NoSignalHandlerLeak == signalHandlers <= LiveConnections

(***************************************************************************)
(* Claims about the peer connections of WebRTCPlayer                       *)
(***************************************************************************)
OpenPeerConnections == {a \in AttemptIds : attempts[a].pc = "open"}

InFlight == {"createOffer", "setLocal", "fetch", "text", "setRemote"}
Superseded(a) == attempts[a].stage \in InFlight /\ player.pcRef # a

\* C23: the continuation of a superseded negotiation changes nothing: a step
\* of a superseded attempt leaves the player's error and loading state alone,
\* does not call onError and does not change what the host shows.
C23_NoSupersededEffect ==
  [][\A a \in AttemptIds :
       (Superseded(a) /\ attempts'[a].stage # attempts[a].stage)
         => /\ attempts'[a].onErr = attempts[a].onErr
            /\ player'.error = player.error
            /\ player'.isLoading = player.isLoading
            /\ hasError' = hasError]_vars

(***************************************************************************)
(* Claims about the sockets of WebSocketService                            *)
(***************************************************************************)
\* the sockets that are connected or that socket.io is still connecting
LiveSockets == {i \in SocketIds : sockets[i] \in {"connecting", "connected"}}

\* C24: whatever the sequence of connect() calls, at most one socket of the
\* service is live, so a server event reaches the handlers through one socket
\* only.
C24_SingleSocket == Cardinality(LiveSockets) <= 1

(***************************************************************************)
(* Claims about WebRTCManager and WebRTCConnection                         *)
(***************************************************************************)

\* C25: every createConnection call settles: the promise of connect() that
\* it awaits is eventually resolved or rejected, also when the connection is
\* disconnected by a later createConnection or closeConnection meanwhile.
C25_CreateConnectionSettles ==
  \A i \in ConnIds :
    (conns[i].promise = "pending") ~> (conns[i].promise \in {"resolved", "rejected"})

\* C26: the connected flag of a WebRTCConnection: connected implies a live
\* peer; the flag turns true only at the peer's 'connect' event and is false
\* after the peer's 'close' event and after disconnect(); after disconnect()
\* the connection has no peer, is not connected and has no handlers, and a
\* further disconnect() leaves it as it is.
C26_ConnectedFlag ==
  [][\A i \in ConnIds :
       /\ conns[i].connected => conns[i].peer = "open"
       /\ conns'[i].connected => conns'[i].peer = "open"
       /\ (~conns[i].connected /\ conns'[i].connected) => MgrPeerConnect(i)
       /\ (MgrPeerClose(i) \/ MgrPeerError(i)) => ~conns'[i].connected
       /\ ConnectionDisconnect(i)
            => /\ conns'[i].peer = "null"
               /\ ~conns'[i].connected
               /\ ~conns'[i].handlers
               /\ ConnDisconnect(conns'[i]) = conns'[i]]_vars

\* one connection was connected and then disconnected while another one, with
\* handlers, is connected
C26_Witness ==
  \E i, j \in ConnIds :
    /\ conns[i].peer = "null" /\ conns[i].promise = "resolved"
    /\ conns[j].connected /\ conns[j].handlers

(***************************************************************************)
(* Claims about the unacknowledged counter of eventsSlice                  *)
(***************************************************************************)
\* state.events.filter(e => !e.acknowledged).length
Unacknowledged ==
  Cardinality({i \in 1..Len(evRecent) : ~evRecent[i].acknowledged})
    + (IF evOldAck THEN 0 ELSE evOldLen)

\* C27: unacknowledgedCount is the number of events of the list that are not
\* acknowledged, and is never negative.
C27_UnacknowledgedCount ==
  /\ unacknowledgedCount = Unacknowledged
  /\ unacknowledgedCount >= 0

(***************************************************************************)
(* Claims about logout                                                     *)
(***************************************************************************)

\* C28: after a logout, by the thunk or by ApiService, whatever became of the
\* request to the server, no token is stored; after the thunk's logout the
\* store is unauthenticated and holds no token, after ApiService's logout the
\* service holds no token.
C28_LogoutAlwaysLogsOut ==
  /\ lastLogout # "none" => localToken = "none"
  /\ lastLogout \in {"fulfilled", "rejected"}
       => ~isAuthenticated /\ authToken = "none"
  /\ lastLogout \in {"success", "failure"} => apiToken = "none"

=============================================================================
